---- MODULE Spec2Model ----
(***************************************************************************)
(* Model of backend/app.py: the per-portal OAuth token store               *)
(* (token_storage), its lazy refresh (get_hubspot_access_token,            *)
(* refresh_access_token), the OAuth callback (oauth_callback) and the      *)
(* line-items route with its GraphQL strategy and REST fallback.           *)
(*                                                                         *)
(* Time is a natural-number clock `now`.  It advances between requests     *)
(* (Tick) and while a handler waits for a network call; local computation  *)
(* takes no time.  Requests are served one at a time: a handler runs as    *)
(* one action, with the upstream responses it receives as its inputs, and  *)
(* records what it did in `last`; Respond then sends the response off and  *)
(* the next request is taken.  A third specification runs                  *)
(* get_hubspot_access_token on the threads of the server, statement by     *)
(* statement, with `threads` holding each thread's locals.                 *)
(***************************************************************************)
EXTENDS Integers, Sequences, FiniteSets, TLC

VARIABLES token_storage, now, issued, last, threads

vars == <<token_storage, now, issued, last, threads>>

\* ------------------------------------------------------------------ bounds
\* The clock stops at MaxTime.
MaxTime == 2
\* expires_in of a token response ranges over 0..MaxExpiresIn.
MaxExpiresIn == 1
\* A network call takes 0..MaxDelay ticks.
MaxDelay == 1
\* The OAuth endpoint issues at most MaxIssued token responses.
MaxIssued == 2

\* ------------------------------------------------------------------ values
\* Python's None; also what response.json() gives for a JSON null.
None == <<"None", 0>>
\* A key that a JSON object / dict does not hold.
Absent == <<"absent", 0>>

\* Tokens are opaque strings; the n-th token response carries a1/r1, a2/r2, ...
AccessToken(n) == <<"a", n>>
RefreshToken(n) == <<"r", n>>

\* Portal identifiers.  The callback stores the record under hub_id exactly as
\* the JSON carries it (a number, or a string), and the route looks it up
\* under the header's string: a key is a (type, id) pair, and 42 is not "42".
IntKey(p) == <<"int", p>>
StrKey(p) == <<"str", p>>
IntKeys == {IntKey(42)}
StrKeys == {StrKey(42), StrKey(7)}
Keys == IntKeys \cup StrKeys

\* The empty string that scope defaults to.  Every value a dict field may
\* hold is a pair, so that it can be told from Absent and None.
EmptyString == <<"", 0>>

\* dict.get(key, default) on a field that is Absent or holds a value.
DictGet(field, default) == IF field = Absent THEN default ELSE field

\* Faulty variant of DictPut: the value is written to every key of the dict.
DictPutEverywhere(d, k, v) == [x \in (DOMAIN d) \cup {k} |-> v]

\* d[k] = v on a dict modelled as a function with a finite domain.
DictPut(d, k, v) == [x \in (DOMAIN d) \cup {k} |-> IF x = k THEN v ELSE d[x]]

\* Python truthiness of a token value: None is falsy, a token is truthy.
Truthy(v) == v # None

\* ------------------------------------------------- upstream token responses
\* A 200 response of the OAuth token endpoint, as response.json() yields it:
\* access_token and expires_in are always there, refresh_token may be
\* missing or null, and scope is missing (HubSpot sends none) unless the
\* endpoint echoes the granted scopes.
ScopeFields == {Absent}

TokenResponses(n) ==
    [access_token : {AccessToken(n)},
     refresh_token : {Absent, None, RefreshToken(n)},
     expires_in : 0..MaxExpiresIn,
     scope : ScopeFields]

\* ------------------------------------------------------- token lifecycle
\* Faulty variant of IsExpired: a token counts as expired at its expiry time.
IsExpiredAtExpiry(t, token_data) == t >= token_data.expires_at

\* line 51: datetime.now() > token_data['expires_at']
IsExpired(t, token_data) == t > token_data.expires_at

\* Faulty variant of RefreshedRecord: expires_at holds the lifetime, not the
\* time the lifetime ends.
RefreshedRecordRelative(token_data, refresh_token, t) ==
    [access_token |-> token_data.access_token,
     refresh_token |-> DictGet(token_data.refresh_token, refresh_token),
     expires_at |-> token_data.expires_in,
     scope |-> DictGet(token_data.scope, EmptyString)]

\* Faulty variant of RefreshedRecord: no default for a missing refresh_token.
RefreshedRecordNoRetain(token_data, refresh_token, t) ==
    [access_token |-> token_data.access_token,
     refresh_token |-> DictGet(token_data.refresh_token, None),
     expires_at |-> t + token_data.expires_in,
     scope |-> DictGet(token_data.scope, EmptyString)]

\* lines 73-78: the record refresh_access_token stores on a 200 response.
RefreshedRecord(token_data, refresh_token, t) ==
    [access_token |-> token_data.access_token,
     refresh_token |-> DictGet(token_data.refresh_token, refresh_token),
     expires_at |-> t + token_data.expires_in,
     scope |-> DictGet(token_data.scope, EmptyString)]

\* lines 133-138: the record oauth_callback stores.
AcquiredRecord(token_data, t) ==
    [access_token |-> token_data.access_token,
     refresh_token |-> DictGet(token_data.refresh_token, None),
     expires_at |-> t + token_data.expires_in,
     scope |-> DictGet(token_data.scope, EmptyString)]

\* Faulty variant of RefreshStore: a failed refresh deletes the record.
RefreshStoreForget(store, portal_id, refresh_token, status, token_data, t) ==
    IF status = 200
    THEN DictPut(store, portal_id, RefreshedRecord(token_data, refresh_token, t))
    ELSE [x \in (DOMAIN store) \ {portal_id} |-> store[x]]

\* refresh_access_token(portal_id, refresh_token), lines 70-82, given the
\* endpoint's answer (status, token_data) read at time t: the store after it
\* and the value it returns.
RefreshStore(store, portal_id, refresh_token, status, token_data, t) ==
    IF status = 200
    THEN DictPut(store, portal_id, RefreshedRecord(token_data, refresh_token, t))
    ELSE store

\* Faulty variant of RefreshResult: a failed refresh returns an error value
\* of its own instead of None.
RefreshResultAuthError(status, token_data) ==
    IF status = 200 THEN token_data.access_token ELSE <<"AuthError", 0>>

RefreshResult(status, token_data) ==
    IF status = 200 THEN token_data.access_token ELSE None

\* get_hubspot_access_token(portal_id): the branch it takes.
\*   "missing": no record (line 48)        "valid": not expired (line 58)
\*   "refresh": expired, refresh token truthy (line 55)
\*   "dead": expired, no refresh token (line 56)
ResolveBranch(store, portal_id, t) ==
    IF portal_id \notin DOMAIN store THEN "missing"
    ELSE IF IsExpired(t, store[portal_id])
         THEN IF Truthy(store[portal_id].refresh_token) THEN "refresh" ELSE "dead"
         ELSE "valid"

\* Faulty variant of ResolveLocal: the stored access token is returned
\* whenever there is a record, expired or not.
ResolveLocalIgnoringExpiry(store, portal_id, t) ==
    IF portal_id \in DOMAIN store THEN store[portal_id].access_token ELSE None

\* The value get_hubspot_access_token returns on the branches that issue no
\* network call.
ResolveLocal(store, portal_id, t) ==
    IF ResolveBranch(store, portal_id, t) = "valid"
    THEN store[portal_id].access_token
    ELSE None

\* Faulty variant of GetToken: when the refresh fails, the stale access token
\* is returned.
GetTokenStaleFallback(store, portal_id, t, status, token_data, d) ==
    IF ResolveBranch(store, portal_id, t) = "refresh"
    THEN [store |-> RefreshStore(store, portal_id, store[portal_id].refresh_token,
                                 status, token_data, t + d),
          token |-> IF status = 200 THEN token_data.access_token
                    ELSE store[portal_id].access_token,
          calls |-> <<"oauth/v1/token">>,
          now |-> t + d,
          issued |-> IF status = 200 THEN 1 ELSE 0,
          issued_at |-> IF status = 200 THEN t + d ELSE 0]
    ELSE [store |-> store,
          token |-> ResolveLocal(store, portal_id, t),
          calls |-> <<>>,
          now |-> t,
          issued |-> 0,
          issued_at |-> 0]

\* get_hubspot_access_token(portal_id) called at time t, lines 44-58.  If it
\* refreshes, the token endpoint answers (status, token_data) after d ticks.
\* Gives the store afterwards, the value returned, the network calls issued,
\* the time of return, how many tokens the endpoint issued, and when.
GetToken(store, portal_id, t, status, token_data, d) ==
    IF ResolveBranch(store, portal_id, t) = "refresh"
    THEN [store |-> RefreshStore(store, portal_id, store[portal_id].refresh_token,
                                 status, token_data, t + d),
          token |-> RefreshResult(status, token_data),
          calls |-> <<"oauth/v1/token">>,
          now |-> t + d,
          issued |-> IF status = 200 THEN 1 ELSE 0,
          issued_at |-> IF status = 200 THEN t + d ELSE 0]
    ELSE [store |-> store,
          token |-> ResolveLocal(store, portal_id, t),
          calls |-> <<>>,
          now |-> t,
          issued |-> 0,
          issued_at |-> 0]

\* Faulty variant of OAuthCallbackResult: the status of the introspection is
\* not looked at, and the record is stored under whatever hub_id came.
OAuthCallbackResultUnchecked(store, t, code, status1, token_data, d1, status2, hub_id, d2) ==
    IF code = Absent
    THEN [store |-> store, status |-> 400, key |-> Absent, token |-> None,
          calls |-> <<>>, now |-> t, issued |-> 0, issued_at |-> 0]
    ELSE IF status1 # 200
    THEN [store |-> store, status |-> 400, key |-> Absent, token |-> None,
          calls |-> <<"oauth/v1/token">>, now |-> t + d1, issued |-> 0,
          issued_at |-> 0]
    ELSE [store |-> DictPut(store, hub_id, AcquiredRecord(token_data, t + d1 + d2)),
          status |-> status2, key |-> hub_id, token |-> token_data.access_token,
          calls |-> <<"oauth/v1/token", "oauth/v1/access-tokens">>,
          now |-> t + d1 + d2, issued |-> 1, issued_at |-> t + d1]

\* oauth_callback, lines 97-144, called at time t with the query string's code
\* (Absent or given), the exchange's answer (status1, token_data) after d1
\* ticks and the introspection's answer (status2, hub_id) after d2 more.
OAuthCallbackResult(store, t, code, status1, token_data, d1, status2, hub_id, d2) ==
    IF code = Absent
    THEN [store |-> store, status |-> 400, key |-> Absent, token |-> None,
          calls |-> <<>>, now |-> t, issued |-> 0, issued_at |-> 0]
    ELSE IF status1 # 200
    THEN [store |-> store, status |-> 400, key |-> Absent, token |-> None,
          calls |-> <<"oauth/v1/token">>, now |-> t + d1, issued |-> 0,
          issued_at |-> 0]
    ELSE IF status2 # 200
    THEN [store |-> store, status |-> 400, key |-> Absent,
          token |-> token_data.access_token,
          calls |-> <<"oauth/v1/token", "oauth/v1/access-tokens">>,
          now |-> t + d1 + d2, issued |-> 1, issued_at |-> t + d1]
    ELSE [store |-> DictPut(store, hub_id, AcquiredRecord(token_data, t + d1 + d2)),
          status |-> 200, key |-> hub_id, token |-> token_data.access_token,
          calls |-> <<"oauth/v1/token", "oauth/v1/access-tokens">>,
          now |-> t + d1 + d2, issued |-> 1, issued_at |-> t + d1]

\* ------------------------------------------------------------ upstream CRM
\* A property that a properties object may lack: <<>> (missing) or <<v>>.
Missing == <<>>
Have(v) == <<v>>

Deal(dealname, items) == [dealname |-> dealname, items |-> items]
Item(name, quantity, price, amount) ==
    [name |-> name, quantity |-> quantity, price |-> price, amount |-> amount]

\* The companies of the upstream CRM and, in order, their deals with their
\* line items: what the GraphQL endpoint nests in one response and what the
\* REST endpoints return call by call.
Companies == {"c0", "c1", "c2"}

CompanyDeals(company_id) ==
    CASE company_id = "c0" -> <<>>
      [] company_id = "c1" ->
            <<Deal(Missing, <<Item(Missing, Missing, Missing, Missing),
                              Item(Have("Gadget"), Missing, Have(7), Missing)>>)>>
      [] OTHER ->
            <<Deal(Have("Deal A"), <<Item(Have("Widget"), Have(2), Have(5), Have(10))>>),
              Deal(Have("Deal B"), <<Item(Have("Gizmo"), Have(1), Have(3), Have(3))>>)>>

\* properties.get(key, default)
PropGet(prop, default) == IF prop = Missing THEN default ELSE prop[1]

\* What a strategy returns: a list of records, None, or an exception raised.
ResultList(records) == <<"list", records>>
ResultNone == <<"None", <<>>>>
ResultRaise == <<"raise", <<>>>>
NotRun == <<"n/a", <<>>>>

\* ------------------------------------------------- GraphQL strategy
\* The containers the response is walked through (lines 242-243).
Containers == <<"data", "CRM", "company", "associations", "deals", "items">>

\* The chain of containers a response body holds: each one present is an
\* object ("obj", the last one a list) or a JSON null, and nothing lies below
\* a null or below a missing key.
GqlChains ==
    {[i \in 1..n |-> "obj"] : n \in 0..Len(Containers)}
    \cup {[i \in 1..n |-> IF i = n THEN "null" ELSE "obj"] : n \in 1..Len(Containers)}

GqlResponse(status, errors, chain) ==
    [status |-> status, errors |-> errors, chain |-> chain]

FullChain == [i \in 1..Len(Containers) |-> "obj"]

GqlResponses ==
    {GqlResponse(500, FALSE, <<>>), GqlResponse(200, TRUE, FullChain)}
    \cup {GqlResponse(200, FALSE, chain) : chain \in GqlChains}

\* Faulty variant of GraphqlRecord: a missing quantity defaults to 1.
GraphqlRecordQuantityOne(deal_name, props) ==
    [deal_name |-> deal_name,
     line_item_name |-> PropGet(props.name, "Unknown Item"),
     quantity |-> PropGet(props.quantity, 1),
     unit_price |-> PropGet(props.price, 0),
     amount |-> PropGet(props.amount, 0)]

\* lines 251-257: the record the GraphQL strategy appends.
GraphqlRecord(deal_name, props) ==
    [deal_name |-> deal_name,
     line_item_name |-> PropGet(props.name, "Unknown Item"),
     quantity |-> PropGet(props.quantity, 0),
     unit_price |-> PropGet(props.price, 0),
     amount |-> PropGet(props.amount, 0)]

\* lines 246-257: the records of one deal of the response.
GraphqlDealRecords(deal) ==
    [j \in 1..Len(deal.items) |->
        GraphqlRecord(PropGet(deal.dealname, "Unknown Deal"), deal.items[j])]

\* lines 245-257: the loop over the deals from the i-th on.
RECURSIVE GraphqlRecords(_, _)
GraphqlRecords(deals, i) ==
    IF i > Len(deals) THEN <<>>
    ELSE GraphqlDealRecords(deals[i]) \o GraphqlRecords(deals, i + 1)

\* lines 242-243: the deals the chained .get calls arrive at.  A missing key
\* yields the default ({} and at last []); a null is handed on as None, and
\* the next .get (or the loop over it) raises.
GraphqlDeals(company_id, chain) ==
    IF \E i \in 1..Len(chain) : chain[i] = "null" THEN ResultRaise
    ELSE IF Len(chain) < Len(Containers) THEN ResultList(<<>>)
    ELSE ResultList(CompanyDeals(company_id))

\* Faulty variant of GetCompanyLineItemsGraphql: the error list of the body
\* is not looked at.
GetCompanyLineItemsGraphqlIgnoringErrors(company_id, response) ==
    IF response.status # 200 THEN ResultNone
    ELSE IF GraphqlDeals(company_id, response.chain) = ResultRaise THEN ResultRaise
    ELSE ResultList(GraphqlRecords(GraphqlDeals(company_id, response.chain)[2], 1))

\* Variant of GetCompanyLineItemsGraphql that returns None when a container
\* of the response is missing.
GetCompanyLineItemsGraphqlStrict(company_id, response) ==
    IF response.status # 200 THEN ResultNone
    ELSE IF response.errors THEN ResultNone
    ELSE IF GraphqlDeals(company_id, response.chain) = ResultRaise THEN ResultRaise
    ELSE IF Len(response.chain) < Len(Containers) THEN ResultNone
    ELSE ResultList(GraphqlRecords(GraphqlDeals(company_id, response.chain)[2], 1))

\* get_company_line_items_graphql, lines 225-259.
GetCompanyLineItemsGraphql(company_id, response) ==
    IF response.status # 200 THEN ResultNone
    ELSE IF response.errors THEN ResultNone
    ELSE IF GraphqlDeals(company_id, response.chain) = ResultRaise THEN ResultRaise
    ELSE ResultList(GraphqlRecords(GraphqlDeals(company_id, response.chain)[2], 1))

\* ------------------------------------------------- REST traversal
\* The (deal, line item) positions of a company.
ItemIds(company_id) ==
    UNION {{<<i, j>> : j \in 1..Len(CompanyDeals(company_id)[i].items)} :
              i \in 1..Len(CompanyDeals(company_id))}

\* How the REST endpoints answer one traversal: the status of the deals
\* listing, the deals whose detail call fails, the deals whose line-item
\* listing fails, the line items whose detail call fails, and whether an
\* association entry comes without its id ("deal_no_id": the first entry of
\* the deals listing; "item_no_id": the first entry of each line-item
\* listing).
RestResponse(deals_status, malformed, deal_fail, assoc_fail, item_fail) ==
    [deals_status |-> deals_status, malformed |-> malformed,
     deal_fail |-> deal_fail, assoc_fail |-> assoc_fail, item_fail |-> item_fail]

RestAllOk == RestResponse(200, "none", {}, {}, {})
NoRest == RestResponse(0, "none", {}, {}, {})

RestResponses(company_id) ==
    {RestResponse(500, "none", {}, {}, {})}
    \cup {RestResponse(200, "none", deal_fail, assoc_fail, item_fail) :
            deal_fail \in SUBSET (1..Len(CompanyDeals(company_id))),
            assoc_fail \in SUBSET (1..Len(CompanyDeals(company_id))),
            item_fail \in SUBSET ItemIds(company_id)}
    \cup {RestResponse(200, malformed, deal_fail, assoc_fail, {}) :
            malformed \in {"deal_no_id", "item_no_id"},
            deal_fail \in SUBSET (1..Len(CompanyDeals(company_id))),
            assoc_fail \in SUBSET (1..Len(CompanyDeals(company_id)))}

\* Faulty variant of RestRecord: a sentinel of its own for a missing name.
RestRecordOwnSentinel(deal_name, props) ==
    [deal_name |-> deal_name,
     line_item_name |-> PropGet(props.name, "Unknown"),
     quantity |-> PropGet(props.quantity, 0),
     unit_price |-> PropGet(props.price, 0),
     amount |-> PropGet(props.amount, 0)]

\* lines 315-321: the record the REST traversal appends.
RestRecord(deal_name, props) ==
    [deal_name |-> deal_name,
     line_item_name |-> PropGet(props.name, "Unknown Item"),
     quantity |-> PropGet(props.quantity, 0),
     unit_price |-> PropGet(props.price, 0),
     amount |-> PropGet(props.amount, 0)]

\* lines 303-321: the loop over one deal's line items from the j-th on; a
\* failed detail call skips that line item (line 310).
RECURSIVE RestItemRecords(_, _, _, _)
RestItemRecords(deal, i, j, response) ==
    IF j > Len(deal.items) THEN <<>>
    ELSE (IF <<i, j>> \in response.item_fail
          THEN <<>>
          ELSE <<RestRecord(PropGet(deal.dealname, "Unknown Deal"), deal.items[j])>>)
         \o RestItemRecords(deal, i, j + 1, response)

\* lines 281-321: one deal; a failed detail call (line 288) or a failed
\* line-item listing (line 298) skips the deal.
RestDealRecords(deal, i, response) ==
    IF i \in response.deal_fail THEN <<>>
    ELSE IF i \in response.assoc_fail THEN <<>>
    ELSE RestItemRecords(deal, i, 1, response)

\* Faulty variant of RestRecords: a deal whose call fails ends the loop
\* (break where the code has continue).
RECURSIVE RestRecordsBreak(_, _, _)
RestRecordsBreak(deals, i, response) ==
    IF i > Len(deals) THEN <<>>
    ELSE IF i \in response.deal_fail \cup response.assoc_fail THEN <<>>
    ELSE RestDealRecords(deals[i], i, response) \o RestRecordsBreak(deals, i + 1, response)

\* lines 280-321: the loop over the deals from the i-th on.
RECURSIVE RestRecords(_, _, _)
RestRecords(deals, i, response) ==
    IF i > Len(deals) THEN <<>>
    ELSE RestDealRecords(deals[i], i, response) \o RestRecords(deals, i + 1, response)

\* lines 281 and 304: association['id'] raises KeyError on an entry without id.
RestRaises(deals, response) ==
    \/ response.malformed = "deal_no_id" /\ Len(deals) > 0
    \/ /\ response.malformed = "item_no_id"
       /\ \E i \in 1..Len(deals) :
             /\ i \notin response.deal_fail
             /\ i \notin response.assoc_fail
             /\ Len(deals[i].items) > 0

\* get_company_line_items_rest, lines 261-323.
GetCompanyLineItemsRest(company_id, response) ==
    IF response.deals_status # 200 THEN ResultList(<<>>)
    ELSE IF RestRaises(CompanyDeals(company_id), response) THEN ResultRaise
    ELSE ResultList(RestRecords(CompanyDeals(company_id), 1, response))

\* ------------------------------------------------- the line-items route
\* HMAC-SHA256 of the request under a secret, as an opaque value.
Hmac(secret) == <<"hmac", secret>>
\* The X-HubSpot-Signature-V3 header of a request with the
\* HUBSPOT_WEBHOOK_SECRET it meets ('' when the environment sets none, line
\* 158): unsigned, signed under the configured secret, signed under another
\* secret, signed with no secret configured.
Signing(signature, secret) == [signature |-> signature, secret |-> secret]
Signings ==
    {Signing(Absent, "s"), Signing(Hmac("s"), "s"), Signing(Hmac("x"), "s"),
     Signing(Hmac("s"), "")}

\* verify_hubspot_signature, lines 31-42.
VerifyHubspotSignature(signature, secret) ==
    IF signature = Absent \/ secret = "" THEN FALSE
    ELSE signature = Hmac(secret)

\* What the upstream answers to one retrieval: the company asked for, the
\* GraphQL response and the REST answers (NoRest when the traversal is not
\* run).  The time the retrieval's calls take is not told apart from the
\* time that passes before the next request (Tick).
Scenario(company_id, gql, rest) ==
    [company_id |-> company_id, gql |-> gql, rest |-> rest]

NoScenario == Scenario("", GqlResponse(0, FALSE, <<>>), NoRest)

\* Faulty variant of FallbackNeeded: `not line_items`, which an empty list
\* satisfies too.
FallbackNeededFalsy(line_items) ==
    line_items = ResultNone \/ line_items = ResultList(<<>>)

\* line 171: line_items is None
FallbackNeeded(line_items) == line_items = ResultNone

\* lines 167-182: the two strategies and the response built from them.
FetchLineItems(scenario) ==
    LET graphql == GetCompanyLineItemsGraphql(scenario.company_id, scenario.gql)
        rest == IF FallbackNeeded(graphql)
                THEN GetCompanyLineItemsRest(scenario.company_id, scenario.rest)
                ELSE NotRun
        line_items == IF FallbackNeeded(graphql) THEN rest ELSE graphql
    IN  [graphql |-> graphql,
         rest |-> rest,
         calls |-> IF FallbackNeeded(graphql) THEN <<"graphql", "rest">>
                   ELSE <<"graphql">>,
         status |-> IF line_items[1] = "list" THEN 200 ELSE 500,
         line_items |-> IF line_items[1] = "list" THEN line_items ELSE NotRun]

NoFetch ==
    [graphql |-> NotRun, rest |-> NotRun, calls |-> <<>>, status |-> 0,
     line_items |-> NotRun]

\* get_company_line_items, lines 147-182, called at time t with the
\* X-HubSpot-Portal-Id header, the X-HubSpot-Signature-V3 header, the
\* configured secret, the token endpoint's answer should a refresh be tried,
\* and the upstream scenario.
GetCompanyLineItems(store, t, header, signature, secret, status, token_data, d, scenario) ==
    LET r == GetToken(store, header, t, status, token_data, d)
        f == FetchLineItems(scenario)
        refused(code) == [store |-> store, status |-> code, token |-> None,
                          calls |-> <<>>, now |-> t, issued |-> 0, issued_at |-> 0,
                          fetch |-> NoFetch]
    IN  IF header = Absent THEN refused(400)
        ELSE IF signature # Absent /\ ~VerifyHubspotSignature(signature, secret)
        THEN refused(401)
        ELSE IF ~Truthy(r.token)
        THEN [store |-> r.store, status |-> 401, token |-> r.token,
              calls |-> r.calls, now |-> r.now, issued |-> r.issued,
              issued_at |-> r.issued_at, fetch |-> NoFetch]
        ELSE [store |-> r.store, status |-> f.status, token |-> r.token,
              calls |-> r.calls \o f.calls, now |-> r.now,
              issued |-> r.issued, issued_at |-> r.issued_at, fetch |-> f]

\* ------------------------------------------------------------ observation
\* No token response.
NoTokenData ==
    [access_token |-> None, refresh_token |-> Absent, expires_in |-> 0,
     scope |-> Absent]

\* What the last handler did: its name, the portal key it was given (for the
\* callback: the hub_id it stored under), the HTTP status it answered (0 for
\* a plain function call), the value get_hubspot_access_token returned (for
\* the callback: the access token exchanged), the network calls it issued in
\* order, the token response it received and the time the endpoint issued it
\* (NoTokenData and 0 if it issued none), and for the line-items route the
\* upstream scenario and what the two strategies returned.
Observation(op, key, status, token, calls, token_data, issued_at, scenario, fetch) ==
    [op |-> op, key |-> key, status |-> status, token |-> token,
     calls |-> calls, token_data |-> token_data, issued_at |-> issued_at,
     scenario |-> scenario, fetch |-> fetch]

NoObservation ==
    Observation("none", Absent, 0, None, <<>>, NoTokenData, 0, NoScenario, NoFetch)

\* No request is being served.
Idle == last = NoObservation

\* The threads of the server (app.run serves each request on a thread of its
\* own) that may be inside get_hubspot_access_token at the same time.
Threads == {"w1", "w2"}

\* What a thread holds when it has read no record.
NoRecord ==
    [access_token |-> None, refresh_token |-> None, expires_at |-> 0,
     scope |-> EmptyString]

\* The locals of a thread inside get_hubspot_access_token / refresh_access_token:
\* the line it is at ("idle" outside the call, "done" at its return), the
\* argument portal_id, the token_data read on line 46, the refresh_token of
\* line 53, the status and body of the response of line 70, and the value
\* returned.
Thread(pc, portal_id, token_data, refresh_token, status, response, result) ==
    [pc |-> pc, portal_id |-> portal_id, token_data |-> token_data,
     refresh_token |-> refresh_token, status |-> status, response |-> response,
     result |-> result]

IdleThread == Thread("idle", Absent, NoRecord, None, 0, NoTokenData, None)

Init ==
    /\ token_storage = <<>>
    /\ now = 0
    /\ issued = 0
    /\ last = NoObservation
    /\ threads = [w \in Threads |-> IdleThread]

\* ------------------------------------------------------------ inputs
Answer(status, token_data, d) == [status |-> status, token_data |-> token_data, d |-> d]

\* The answers the token endpoint may give to the refresh that
\* get_hubspot_access_token(portal_id) issues, if it issues one: a failure, or
\* (while the endpoint still issues tokens) the next token response.
RefreshAnswers(store, portal_id, t, budget) ==
    IF ResolveBranch(store, portal_id, t) = "refresh"
    THEN {Answer(400, NoTokenData, d) : d \in 0..MaxDelay}
         \cup (IF issued < budget
               THEN {Answer(200, token_data, d) :
                        token_data \in TokenResponses(issued + 1), d \in 0..MaxDelay}
               ELSE {})
    ELSE {Answer(0, NoTokenData, 0)}

\* The authorization code of the callback's query string.
Code == <<"code", 1>>

CallbackAnswer(code, status1, token_data, d1, status2, hub_id, d2) ==
    [code |-> code, status1 |-> status1, token_data |-> token_data, d1 |-> d1,
     status2 |-> status2, hub_id |-> hub_id, d2 |-> d2]

\* What a callback request may meet: no code; a failed exchange; a token
\* issued and a failed introspection; a token issued and a hub_id.
CallbackAnswers(budget) ==
    {CallbackAnswer(Absent, 0, NoTokenData, 0, 0, Absent, 0)}
    \cup {CallbackAnswer(Code, 400, NoTokenData, d1, 0, Absent, 0) : d1 \in 0..MaxDelay}
    \cup (IF issued < budget
          THEN {CallbackAnswer(Code, 200, token_data, d1, 400, Absent, d2) :
                   token_data \in TokenResponses(issued + 1),
                   d1 \in 0..MaxDelay, d2 \in 0..MaxDelay}
               \cup
               {CallbackAnswer(Code, 200, token_data, d1, 200, hub_id, d2) :
                   token_data \in TokenResponses(issued + 1), hub_id \in Keys,
                   d1 \in 0..MaxDelay, d2 \in 0..MaxDelay}
          ELSE {})

\* ------------------------------------------------------------ actions
\* A request to /oauth/callback.
OAuthCallback(budget) ==
    /\ Idle
    /\ UNCHANGED threads
    /\ \E a \in CallbackAnswers(budget) :
        LET r == OAuthCallbackResult(token_storage, now, a.code, a.status1,
                                     a.token_data, a.d1, a.status2, a.hub_id, a.d2)
        IN  /\ r.now <= MaxTime
            /\ token_storage' = r.store
            /\ now' = r.now
            /\ issued' = issued + r.issued
            /\ last' = Observation("acquire", r.key, r.status, r.token, r.calls,
                                   IF r.issued = 1 THEN a.token_data ELSE NoTokenData,
                                   r.issued_at, NoScenario, NoFetch)

\* get_hubspot_access_token called with any key.
Resolve(budget) ==
    /\ Idle
    /\ UNCHANGED threads
    /\ \E portal_id \in Keys :
        \E a \in RefreshAnswers(token_storage, portal_id, now, budget) :
            LET r == GetToken(token_storage, portal_id, now, a.status, a.token_data, a.d)
            IN  /\ r.now <= MaxTime
                /\ token_storage' = r.store
                /\ now' = r.now
                /\ issued' = issued + r.issued
                /\ last' = Observation("resolve", portal_id, 0, r.token, r.calls,
                                       IF r.issued = 1 THEN a.token_data
                                       ELSE NoTokenData,
                                       r.issued_at, NoScenario, NoFetch)

\* A request to /api/company/<company_id>/line-items.
LineItems(budget, scenarios) ==
    /\ Idle
    /\ UNCHANGED threads
    /\ \E header \in StrKeys \cup {Absent}, signing \in Signings :
        LET signature == signing.signature
            secret == signing.secret
            admitted == /\ header # Absent
                        /\ signature = Absent \/ VerifyHubspotSignature(signature, secret)
        IN  \E a \in (IF admitted
                      THEN RefreshAnswers(token_storage, header, now, budget)
                      ELSE {Answer(0, NoTokenData, 0)}) :
                LET fetches ==
                        admitted /\ Truthy(GetToken(token_storage, header, now, a.status,
                                                    a.token_data, a.d).token)
                IN  \E scenario \in (IF fetches THEN scenarios ELSE {NoScenario}) :
                        LET r == GetCompanyLineItems(token_storage, now, header, signature,
                                                     secret, a.status, a.token_data, a.d,
                                                     scenario)
                        IN  /\ r.now <= MaxTime
                            /\ token_storage' = r.store
                            /\ now' = r.now
                            /\ issued' = issued + r.issued
                            /\ last' = Observation("line_items", header, r.status, r.token,
                                                   r.calls,
                                                   IF r.issued = 1 THEN a.token_data
                                                   ELSE NoTokenData,
                                                   r.issued_at, scenario, r.fetch)

\* The response of the request served is sent.
Respond ==
    /\ ~Idle
    /\ last' = NoObservation
    /\ UNCHANGED <<token_storage, now, issued, threads>>

\* Time passes between requests.
Tick ==
    /\ Idle
    /\ now < MaxTime
    /\ now' = now + 1
    /\ UNCHANGED <<token_storage, issued, last, threads>>

\* ------------------------------------------------------------ threads
\* Faulty variant of StoreRefreshed: the record is written only if the store
\* still holds the record the thread read.
StoreRefreshedIfUnchanged(store, thread, t) ==
    IF thread.portal_id \in DOMAIN store /\ store[thread.portal_id] = thread.token_data
    THEN RefreshStore(store, thread.portal_id, thread.refresh_token, thread.status,
                      thread.response, t)
    ELSE store

\* lines 71-78 as a thread runs them at time t: the store afterwards.
StoreRefreshed(store, thread, t) ==
    RefreshStore(store, thread.portal_id, thread.refresh_token, thread.status,
                 thread.response, t)

\* lines 163 and 46: a thread enters get_hubspot_access_token with the
\* header of its request and reads the record of that portal_id, or None.
ThreadRead(w) ==
    /\ threads[w].pc = "idle"
    /\ \E portal_id \in StrKeys :
          threads' = [threads EXCEPT ![w] =
                         Thread("47", portal_id,
                                IF portal_id \in DOMAIN token_storage
                                THEN token_storage[portal_id] ELSE NoRecord,
                                None, 0, NoTokenData, None)]
    /\ UNCHANGED <<token_storage, now, issued, last>>

\* lines 47-58: on what it read and the clock, the thread returns None
\* (no record; expired without refresh token), returns the access token it
\* read (not expired), or goes on to refresh with the refresh token it read.
ThreadCheck(w) ==
    LET t == threads[w]
    IN  /\ t.pc = "47"
        /\ threads' = [threads EXCEPT ![w] =
              IF t.token_data = NoRecord
              THEN [t EXCEPT !.pc = "done", !.result = None]
              ELSE IF IsExpired(now, t.token_data)
              THEN IF Truthy(t.token_data.refresh_token)
                   THEN [t EXCEPT !.pc = "70",
                                  !.refresh_token = t.token_data.refresh_token]
                   ELSE [t EXCEPT !.pc = "done", !.result = None]
              ELSE [t EXCEPT !.pc = "done", !.result = t.token_data.access_token]]
        /\ UNCHANGED <<token_storage, now, issued, last>>

\* line 70: the thread posts its refresh token and is answered: a failure,
\* or (while the endpoint still issues tokens) the next token response.
ThreadPost(w, budget) ==
    LET t == threads[w]
    IN  /\ t.pc = "70"
        /\ \/ /\ threads' = [threads EXCEPT ![w] = [t EXCEPT !.pc = "71", !.status = 400]]
              /\ UNCHANGED issued
           \/ /\ issued < budget
              /\ \E token_data \in TokenResponses(issued + 1) :
                    threads' = [threads EXCEPT ![w] =
                                   [t EXCEPT !.pc = "71", !.status = 200,
                                             !.response = token_data]]
              /\ issued' = issued + 1
        /\ UNCHANGED <<token_storage, now, last>>

\* lines 71-82: on 200 the thread stores the refreshed record and returns the
\* new access token; otherwise it returns None.
ThreadStore(w) ==
    LET t == threads[w]
    IN  /\ t.pc = "71"
        /\ token_storage' = StoreRefreshed(token_storage, t, now)
        /\ threads' = [threads EXCEPT ![w] =
                          [t EXCEPT !.pc = "done",
                                    !.result = RefreshResult(t.status, t.response)]]
        /\ UNCHANGED <<now, issued, last>>

\* The caller has the value returned; the thread is free again.
ThreadReturn(w) ==
    /\ threads[w].pc = "done"
    /\ threads' = [threads EXCEPT ![w] = IdleThread]
    /\ UNCHANGED <<token_storage, now, issued, last>>

\* ------------------------------------------------------------ specifications
\* The upstream scenarios of the token-lifecycle specification: one company,
\* with the GraphQL strategy answering, raising, and failing over to REST.
LifecycleScenarios ==
    {Scenario("c1", GqlResponse(200, FALSE, FullChain), NoRest),
     Scenario("c1", GqlResponse(200, FALSE, <<"null">>), NoRest),
     Scenario("c1", GqlResponse(500, FALSE, <<>>), RestAllOk)}

\* Every upstream scenario: each company, each GraphQL response and, where
\* the GraphQL strategy returns None, each way the REST endpoints may answer.
RetrievalScenarios ==
    UNION {IF FallbackNeeded(GetCompanyLineItemsGraphql(company_id, gql))
           THEN {Scenario(company_id, gql, rest) : rest \in RestResponses(company_id)}
           ELSE {Scenario(company_id, gql, NoRest)} :
           company_id \in Companies, gql \in GqlResponses}

\* The token lifecycle under every answer of the OAuth endpoints.
Next ==
    \/ Tick
    \/ Respond
    \/ OAuthCallback(MaxIssued)
    \/ Resolve(MaxIssued)
    \/ LineItems(MaxIssued, LifecycleScenarios)

Spec == Init /\ [][Next]_vars

\* The retrieval under every upstream scenario, with the token endpoint
\* issuing at most RetrievalMaxIssued tokens.
RetrievalMaxIssued == 1

RetrievalNext ==
    \/ Tick
    \/ Respond
    \/ OAuthCallback(RetrievalMaxIssued)
    \/ Resolve(RetrievalMaxIssued)
    \/ LineItems(RetrievalMaxIssued, RetrievalScenarios)

RetrievalSpec == Init /\ [][RetrievalNext]_vars

\* get_hubspot_access_token on the threads of the server.  The token
\* endpoint issues at most ConcurrentMaxIssued tokens, of which the first
\* ConcurrentMaxAcquired may go to callbacks.
ConcurrentMaxIssued == 3
ConcurrentMaxAcquired == 1

ConcurrentNext ==
    \/ Tick
    \/ Respond
    \/ OAuthCallback(ConcurrentMaxAcquired)
    \/ \E w \in Threads : ThreadRead(w)
    \/ \E w \in Threads : ThreadCheck(w)
    \/ \E w \in Threads : ThreadPost(w, ConcurrentMaxIssued)
    \/ \E w \in Threads : ThreadStore(w)
    \/ \E w \in Threads : ThreadReturn(w)

ConcurrentSpec == Init /\ [][ConcurrentNext]_vars

\* ------------------------------------------------------------ properties
\* The step just taken served get_hubspot_access_token(k) as a plain call.
Resolved(k) == Idle /\ last'.op = "resolve" /\ last'.key = k

HasRecord(k) == k \in DOMAIN token_storage
Expired(k) == HasRecord(k) /\ now > token_storage[k].expires_at
HasRefreshToken(k) == HasRecord(k) /\ token_storage[k].refresh_token # None

\* The token endpoint answered 200 in the step just taken.
Refreshed == issued' = issued + 1

\* C1: a resolve of a tenant whose record has now <= expires_at (equality
\* included) issues no network call, returns exactly the stored access token
\* and leaves the whole store unchanged.
C1_ValidTokenServedLocally ==
    [][\A k \in Keys :
          (Resolved(k) /\ HasRecord(k) /\ now <= token_storage[k].expires_at)
          => /\ last'.calls = <<>>
             /\ last'.token = token_storage[k].access_token
             /\ token_storage' = token_storage]_vars

\* C1 witness: a resolve answered from the store at the very expiry time.
C1_Witness ==
    /\ last.op = "resolve"
    /\ last.key \in DOMAIN token_storage
    /\ now = token_storage[last.key].expires_at
    /\ now > 0
    /\ last.calls = <<>>
    /\ last.token = token_storage[last.key].access_token

\* C2: a resolve of a tenant whose record is expired and holds a refresh
\* token issues exactly one request to the token endpoint, and if that
\* refresh succeeds the stored expires_at is strictly greater than before,
\* whatever expires_in the endpoint returned.
C2_ExpiredRefreshesOnce ==
    [][\A k \in Keys :
          (Resolved(k) /\ Expired(k) /\ HasRefreshToken(k))
          => /\ last'.calls = <<"oauth/v1/token">>
             /\ Refreshed => token_storage'[k].expires_at > token_storage[k].expires_at]_vars

\* C2 witness: a successful refresh whose response carried expires_in = 0.
C2_Witness ==
    /\ last.op = "resolve"
    /\ last.calls = <<"oauth/v1/token">>
    /\ last.token # None
    /\ last.token_data.expires_in = 0
    /\ token_storage[last.key].access_token = last.token
    /\ token_storage[last.key].expires_at = now

C4_RefreshTokenNeverDropped ==
    [][\A k \in Keys :
          HasRefreshToken(k)
          => /\ k \in DOMAIN token_storage'
             /\ token_storage'[k].refresh_token # None]_vars

\* C5: when the record is expired and the refresh is answered with a
\* non-success status, resolve returns the failure value and not the stale
\* access token; and whenever resolve returns an access token, it is the
\* stored one and its record is not expired at the time of return.
C5_NoStaleToken ==
    [][\A k \in Keys :
          Resolved(k)
          => /\ (Expired(k) /\ ~Refreshed) => last'.token = None
             /\ last'.token # None
                => /\ k \in DOMAIN token_storage'
                   /\ last'.token = token_storage'[k].access_token
                   /\ now' <= token_storage'[k].expires_at]_vars

\* C5 witness: a refresh was tried and failed; None came back while the
\* expired record, with its access token, stays in the store.
C5_Witness ==
    /\ last.op = "resolve"
    /\ last.calls = <<"oauth/v1/token">>
    /\ last.token = None
    /\ last.key \in DOMAIN token_storage
    /\ now > token_storage[last.key].expires_at
    /\ token_storage[last.key].access_token # None

\* The two failure conditions of a resolve of k in the current state.
\* NoCredential: no record, or an expired record without refresh token.
NoCredentialCase(k) ==
    ResolveBranch(token_storage, k, now) \in {"missing", "dead"}
\* AuthError: an expired record with a refresh token, and the refresh fails.
AuthErrorCase(k) == ResolveBranch(token_storage, k, now) = "refresh"

C7_NoCredentialLocally ==
    [][\A k \in Keys :
          (Resolved(k) /\ (~HasRecord(k) \/ (Expired(k) /\ ~HasRefreshToken(k))))
          => /\ last'.token = None
             /\ last'.calls = <<>>
             /\ token_storage' = token_storage]_vars

\* C7 witness: None returned for an expired record without refresh token.
C7_Witness ==
    /\ last.op = "resolve"
    /\ last.token = None
    /\ last.calls = <<>>
    /\ last.key \in DOMAIN token_storage
    /\ now > token_storage[last.key].expires_at
    /\ token_storage[last.key].refresh_token = None

\* The last request was a line-items request that got its token and ran the
\* retrieval.
Fetched == last.op = "line_items" /\ last.fetch # NoFetch

\* How often a call occurs among the calls of the last request.
CallCount(call) == Cardinality({i \in 1..Len(last.calls) : last.calls[i] = call})

\* The GraphQL response of the last request was a success without error
\* list.
GqlSucceeded == last.scenario.gql.status = 200 /\ ~last.scenario.gql.errors

\* C8: when the GraphQL query succeeds with zero deals, the route returns an
\* empty list and issues no REST call; and the REST traversal runs only after
\* the GraphQL query was issued and returned None, never after it returned a
\* list, empty or not.
C8_EmptyListNoFallback ==
    Fetched
    => /\ (/\ GqlSucceeded
           /\ last.scenario.gql.chain = FullChain
           /\ CompanyDeals(last.scenario.company_id) = <<>>)
          => /\ last.status = 200
             /\ last.fetch.line_items = ResultList(<<>>)
             /\ CallCount("rest") = 0
       /\ CallCount("rest") > 0
          => /\ last.fetch.graphql = ResultNone
             /\ \E i, j \in 1..Len(last.calls) :
                   i < j /\ last.calls[i] = "graphql" /\ last.calls[j] = "rest"
       /\ last.fetch.graphql[1] = "list" => CallCount("rest") = 0

\* C8 witness: a company without deals, answered in full by GraphQL.
C8_Witness ==
    /\ Fetched
    /\ GqlSucceeded
    /\ last.scenario.gql.chain = FullChain
    /\ last.scenario.company_id = "c0"
    /\ last.fetch.line_items = ResultList(<<>>)
    /\ last.calls = <<"graphql">>

\* C9: when the GraphQL query is answered with a non-success status or with
\* a body that holds an error list, the REST traversal is run exactly once
\* and what it returns is what the caller gets.
C9_FailureFallsBackToRest ==
    (Fetched /\ ~GqlSucceeded)
    => /\ CallCount("rest") = 1
       /\ last.fetch.rest =
              GetCompanyLineItemsRest(last.scenario.company_id, last.scenario.rest)
       /\ last.fetch.rest[1] = "list"
          => /\ last.status = 200
             /\ last.fetch.line_items = last.fetch.rest

\* C9 witness: an error list in the body, and the REST records returned.
C9_Witness ==
    /\ Fetched
    /\ last.scenario.gql.status = 200
    /\ last.scenario.gql.errors
    /\ last.calls = <<"graphql", "rest">>
    /\ last.status = 200
    /\ Len(last.fetch.line_items[2]) = 2

\* The GraphQL response of the last request was a success without error
\* list in which the key of some container is missing (and none is null).
ContainerMissing ==
    /\ GqlSucceeded
    /\ Len(last.scenario.gql.chain) < Len(Containers)
    /\ \A i \in 1..Len(last.scenario.gql.chain) : last.scenario.gql.chain[i] = "obj"

\* C10 as stated: when a container of a successful response is absent, the
\* GraphQL strategy returns None and the REST traversal is run.
C10_MissingContainerInconclusive ==
    (Fetched /\ ContainerMissing)
    => /\ last.fetch.graphql = ResultNone
       /\ CallCount("rest") = 1

\* C10 as amended: when a container of a successful response is missing, the
\* GraphQL strategy returns the empty list, the REST traversal is not run and
\* the caller gets the empty list.
C10_MissingContainerEmptyList ==
    (Fetched /\ ContainerMissing)
    => /\ last.fetch.graphql = ResultList(<<>>)
       /\ CallCount("rest") = 0
       /\ last.status = 200
       /\ last.fetch.line_items = ResultList(<<>>)

\* C10 witness: the response stops short of `company` for a company that
\* has deals, and the caller gets the empty list.
C10_Witness ==
    /\ Fetched
    /\ GqlSucceeded
    /\ last.scenario.gql.chain = <<"obj", "obj">>
    /\ last.scenario.company_id = "c2"
    /\ last.fetch.line_items = ResultList(<<>>)
    /\ last.calls = <<"graphql">>

\* ---------------------------------------------------------- normalisation
\* The (deal, line item) positions of a list of deals, in traversal order.
RECURSIVE TraversalFrom(_, _, _)
TraversalFrom(deals, i, j) ==
    IF i > Len(deals) THEN <<>>
    ELSE IF j > Len(deals[i].items) THEN TraversalFrom(deals, i + 1, 1)
    ELSE <<<<i, j>>>> \o TraversalFrom(deals, i, j + 1)

\* The fields of an output record.
RecordFields == {"deal_name", "line_item_name", "quantity", "unit_price", "amount"}

\* The record a line item at position p should yield: each value as the
\* upstream holds it, and the sentinel or 0 where the upstream holds none.
Normalised(deals, p) ==
    LET deal == deals[p[1]]
        item == deal.items[p[2]]
    IN  [deal_name |-> IF deal.dealname = Missing THEN "Unknown Deal"
                       ELSE deal.dealname[1],
         line_item_name |-> IF item.name = Missing THEN "Unknown Item"
                            ELSE item.name[1],
         quantity |-> IF item.quantity = Missing THEN 0 ELSE item.quantity[1],
         unit_price |-> IF item.price = Missing THEN 0 ELSE item.price[1],
         amount |-> IF item.amount = Missing THEN 0 ELSE item.amount[1]]

\* The last request ran the REST traversal.
RestRan == Fetched /\ last.fetch.rest # NotRun

\* The REST endpoints of the last request answered with well-formed bodies,
\* the deals listing with success.
RestWellFormed ==
    last.scenario.rest.deals_status = 200 /\ last.scenario.rest.malformed = "none"

\* The positions whose own detail call and whose deal's two calls succeeded
\* in the last request, in traversal order.
SucceededPositions ==
    LET ok(p) == /\ p[1] \notin last.scenario.rest.deal_fail
                 /\ p[1] \notin last.scenario.rest.assoc_fail
                 /\ p \notin last.scenario.rest.item_fail
    IN  SelectSeq(TraversalFrom(CompanyDeals(last.scenario.company_id), 1, 1), ok)

\* C11: in the REST traversal a failed deal detail call or line-item listing
\* skips only that deal and a failed line-item detail call skips only that
\* line item: the list returned holds exactly, in traversal order, the
\* records of the line items whose own call and whose deal's two calls
\* succeeded, and the request is answered with success.
C11_RestSkipsOnlyFailures ==
    (RestRan /\ RestWellFormed)
    => /\ last.fetch.rest =
              ResultList([k \in 1..Len(SucceededPositions) |->
                            Normalised(CompanyDeals(last.scenario.company_id),
                                       SucceededPositions[k])])
       /\ last.fetch.line_items = last.fetch.rest
       /\ last.status = 200

\* C11 witness: two deals, deal A's line-item listing fails, deal B has one
\* line item: exactly one record, deal B's, and no error.
C11_Witness ==
    /\ RestRan
    /\ last.scenario.company_id = "c2"
    /\ last.scenario.rest = RestResponse(200, "none", {}, {1}, {})
    /\ last.status = 200
    /\ last.fetch.line_items =
          ResultList(<<[deal_name |-> "Deal B", line_item_name |-> "Gizmo",
                        quantity |-> 1, unit_price |-> 3, amount |-> 3]>>)

\* C12: fetching line items never fails outright: whatever the GraphQL and
\* REST endpoints answer, the request that got its token is served a list of
\* records and never ends in an exception or an error response.
C12_FetchNeverFails ==
    Fetched
    => /\ last.fetch.graphql # ResultRaise
       /\ last.fetch.rest # ResultRaise
       /\ last.status = 200
       /\ last.fetch.line_items[1] = "list"

\* The GraphQL response of the last request was a success without error
\* list that holds every container.
GqlComplete == GqlSucceeded /\ last.scenario.gql.chain = FullChain

\* C13: for the same upstream data the two strategies return the same list:
\* what the GraphQL strategy returns from a complete response is what the
\* REST traversal returns when all its calls succeed, and the other way
\* round, and every record has the five fields.
C13_StrategiesAgree ==
    Fetched
    => /\ GqlComplete
          => last.fetch.graphql =
                GetCompanyLineItemsRest(last.scenario.company_id, RestAllOk)
       /\ (RestRan /\ last.scenario.rest = RestAllOk)
          => last.fetch.rest =
                GetCompanyLineItemsGraphql(last.scenario.company_id,
                                           GqlResponse(200, FALSE, FullChain))
       /\ last.fetch.line_items[1] = "list"
          => \A k \in 1..Len(last.fetch.line_items[2]) :
                DOMAIN last.fetch.line_items[2][k] = RecordFields

\* C13 witness: the REST traversal with every call succeeding returned the
\* two records that the GraphQL strategy returns for that company.
C13_Witness ==
    /\ RestRan
    /\ last.scenario.rest = RestAllOk
    /\ last.scenario.company_id = "c2"
    /\ Len(last.fetch.rest[2]) = 2
    /\ last.fetch.rest =
          GetCompanyLineItemsGraphql("c2", GqlResponse(200, FALSE, FullChain))

\* The upstream positions the records of the last request's list come from:
\* all of them for a complete GraphQL response, none for one that lacks a
\* container, the succeeded ones for the REST traversal.
SourcePositions ==
    IF RestRan THEN SucceededPositions
    ELSE IF GqlComplete
    THEN TraversalFrom(CompanyDeals(last.scenario.company_id), 1, 1)
    ELSE <<>>

\* C14: in both strategies a line item without quantity, price or amount
\* yields 0 in that field, a missing line-item name yields "Unknown Item", a
\* missing deal name yields "Unknown Deal", and values the upstream holds
\* are passed through unchanged.
C14_DefaultsSubstituted ==
    (/\ Fetched
     /\ last.fetch.line_items[1] = "list"
     /\ RestRan => RestWellFormed)
    => /\ Len(last.fetch.line_items[2]) = Len(SourcePositions)
       /\ \A k \in 1..Len(SourcePositions) :
            LET deal == CompanyDeals(last.scenario.company_id)[SourcePositions[k][1]]
                item == deal.items[SourcePositions[k][2]]
                r == last.fetch.line_items[2][k]
            IN  /\ deal.dealname = Missing => r.deal_name = "Unknown Deal"
                /\ deal.dealname # Missing => r.deal_name = deal.dealname[1]
                /\ item.name = Missing => r.line_item_name = "Unknown Item"
                /\ item.name # Missing => r.line_item_name = item.name[1]
                /\ item.quantity = Missing => r.quantity = 0
                /\ item.quantity # Missing => r.quantity = item.quantity[1]
                /\ item.price = Missing => r.unit_price = 0
                /\ item.price # Missing => r.unit_price = item.price[1]
                /\ item.amount = Missing => r.amount = 0
                /\ item.amount # Missing => r.amount = item.amount[1]

\* C14 witness: a deal without name whose first line item has no property
\* and whose second has a name and a price, answered by GraphQL.
C14_Witness ==
    /\ Fetched
    /\ GqlComplete
    /\ last.scenario.company_id = "c1"
    /\ last.fetch.line_items =
          ResultList(<<[deal_name |-> "Unknown Deal", line_item_name |-> "Unknown Item",
                        quantity |-> 0, unit_price |-> 0, amount |-> 0],
                       [deal_name |-> "Unknown Deal", line_item_name |-> "Gadget",
                        quantity |-> 0, unit_price |-> 7, amount |-> 0]>>)

\* ------------------------------------------------- acquire and the store
\* The step just taken served a request to /oauth/callback.
Acquired == Idle /\ last'.op = "acquire"

\* The records of every key but k are the same before and after the step.
OthersUntouched(k) ==
    \A j \in Keys \ {k} :
        /\ j \in DOMAIN token_storage
           => j \in DOMAIN token_storage' /\ token_storage'[j] = token_storage[j]
        /\ j \notin DOMAIN token_storage => j \notin DOMAIN token_storage'

\* C16: the callback leaves the store unchanged and answers with an error
\* when the code exchange fails, in which case the introspection call is not
\* issued, and when the introspection fails; when both succeed it writes
\* exactly one record, under the hub_id of the introspection, holding the
\* access token of the exchange.
C16_AcquireAllOrNothing ==
    [][Acquired
       => /\ ~Refreshed
             => /\ \A i \in 1..Len(last'.calls) : last'.calls[i] # "oauth/v1/access-tokens"
                /\ last'.status = 400
                /\ token_storage' = token_storage
          /\ (Refreshed /\ last'.status # 200)
             => /\ last'.status = 400
                /\ token_storage' = token_storage
          /\ last'.status = 200
             => /\ Refreshed
                /\ last'.calls = <<"oauth/v1/token", "oauth/v1/access-tokens">>
                /\ last'.key \in Keys
                /\ DOMAIN token_storage' = (DOMAIN token_storage) \cup {last'.key}
                /\ OthersUntouched(last'.key)
                /\ token_storage'[last'.key].access_token = last'.token_data.access_token]_vars

\* C16 witness: the exchange issued a token, the introspection failed, and
\* no record holds that token.
C16_Witness ==
    /\ last.op = "acquire"
    /\ last.status = 400
    /\ last.calls = <<"oauth/v1/token", "oauth/v1/access-tokens">>
    /\ last.token = AccessToken(issued)
    /\ \A k \in DOMAIN token_storage : token_storage[k].access_token # last.token

\* C17: a failure neither removes nor degrades a record.  A refresh answered
\* with a non-success status leaves the store as it was and is tried once
\* only; no step takes a key out of the store; a tenant that is still
\* expired after a step holds the record it held before, so that every later
\* resolve of it, being a resolve of an expired record with a refresh token,
\* issues exactly one refresh call again.
C17_FailureLeavesRecord ==
    [][\A k \in Keys :
          /\ (Resolved(k) /\ Expired(k) /\ HasRefreshToken(k) /\ ~Refreshed)
             => /\ token_storage' = token_storage
                /\ last'.calls = <<"oauth/v1/token">>
                /\ ResolveBranch(token_storage', k, now') = "refresh"
          /\ HasRecord(k) => k \in DOMAIN token_storage'
          /\ (Expired(k) /\ now' > token_storage'[k].expires_at)
             => token_storage'[k] = token_storage[k]
          /\ (Resolved(k) /\ ResolveBranch(token_storage, k, now) = "refresh")
             => Cardinality({i \in 1..Len(last'.calls) :
                                last'.calls[i] = "oauth/v1/token"}) = 1]_vars

\* C17 witness: a refresh has failed for a record that expired two ticks
\* ago or more, and the record is there with its tokens, ready for the next
\* resolve to refresh.
C17_Witness ==
    /\ last.op = "resolve"
    /\ last.calls = <<"oauth/v1/token">>
    /\ last.token = None
    /\ last.key \in DOMAIN token_storage
    /\ now >= token_storage[last.key].expires_at + 2
    /\ ResolveBranch(token_storage, last.key, now) = "refresh"

\* C18: expires_at is written only by a step in which the token endpoint
\* issued a token, and then equals the time that token was issued plus the
\* expires_in of its response; a step that issues no token changes no
\* record's expires_at.
C18_ExpiresAtFromIssuance ==
    [][\A k \in Keys :
          /\ (/\ k \in DOMAIN token_storage'
              /\ k \notin DOMAIN token_storage \/ token_storage'[k] # token_storage[k])
             => /\ Refreshed
                /\ last'.key = k
                /\ token_storage'[k].expires_at
                      = last'.issued_at + last'.token_data.expires_in
          /\ (~Refreshed /\ HasRecord(k))
             => /\ k \in DOMAIN token_storage'
                /\ token_storage'[k].expires_at = token_storage[k].expires_at]_vars

\* C19: when the callback has stored a record under the hub_id of the
\* introspection, a number, and the record is not expired, a line-items
\* request whose X-HubSpot-Portal-Id header names that tenant, as a string,
\* resolves to the record and gets its access token.
C19_AcquireResolveRoundTrip ==
    \A k \in IntKeys :
        (HasRecord(k) /\ now <= token_storage[k].expires_at)
        => GetCompanyLineItems(token_storage, now, StrKey(k[2]), Absent, "", 0,
                               NoTokenData, 0, NoScenario).token
              = token_storage[k].access_token

\* The store with the records of every key but k taken out.
Only(store, k) == [x \in (DOMAIN store) \cap {k} |-> store[x]]

BothRefreshed(w1, w2) ==
    /\ w1 # w2
    /\ threads[w1].pc = "done" /\ threads[w2].pc = "done"
    /\ threads[w1].status = 200 /\ threads[w2].status = 200
    /\ threads[w1].portal_id = threads[w2].portal_id
    /\ threads[w1].token_data = threads[w2].token_data

\* C15: resolves of one expired tenant on two threads are not coordinated.
\* A thread that read an expired record with a refresh token posts that
\* refresh token whatever the other thread has done since, and on success
\* overwrites whatever record the store holds with its own and returns its
\* own new access token; so two threads that refreshed from the same stale
\* record used the same refresh token and returned different access tokens,
\* of which the store holds at most one.
C15_RefreshUncoordinated ==
    /\ [][\A w \in Threads :
            /\ (threads[w].pc = "47" /\ threads'[w].pc = "70")
               => threads'[w].refresh_token = threads[w].token_data.refresh_token
            /\ (threads[w].pc = "71" /\ threads'[w].pc = "done" /\ threads[w].status = 200)
               => /\ token_storage'[threads[w].portal_id] =
                        RefreshedRecord(threads[w].response, threads[w].refresh_token, now)
                  /\ threads'[w].result = threads[w].response.access_token]_vars
    /\ [](\A w1, w2 \in Threads :
            BothRefreshed(w1, w2)
            => /\ threads[w1].refresh_token = threads[w2].refresh_token
               /\ threads[w1].result # threads[w2].result
               /\ token_storage[threads[w1].portal_id].access_token = threads[w1].result
                  => token_storage[threads[w1].portal_id].access_token # threads[w2].result)

\* C15 witness: both threads read the same stale record and posted the same
\* refresh token; w1 stored first and w2 overwrote it, and the access token
\* w1 returned is not the stored one.
C15_Witness ==
    /\ BothRefreshed("w1", "w2")
    /\ threads["w1"].refresh_token = threads["w2"].refresh_token
    /\ threads["w1"].refresh_token # None
    /\ threads["w1"].result = AccessToken(2)
    /\ threads["w2"].result = AccessToken(3)
    /\ token_storage[threads["w1"].portal_id].access_token = threads["w2"].result
    /\ token_storage[threads["w1"].portal_id].access_token # threads["w1"].result

====
